---- MODULE Spec2Model ----
(***************************************************************************)
(* Model of src/src/eventsparser.py: the script that loads                 *)
(* ../output/events.json, strips the keys of delKeys from a shallow copy   *)
(* of every event and writes ../output/cleaned-events.json.                *)
(*                                                                         *)
(* Python objects live in `heap` (a sequence; an address is an index).     *)
(* Immutable scalars are held by value, lists and dicts by reference, so   *)
(* that dict.copy() is the shallow copy it is in Python.  A file holds a   *)
(* JSON document, an immutable tree.                                       *)
(***************************************************************************)
EXTENDS Integers, Sequences, FiniteSets, TLC

\* ---------------------------------------------------------------- bounds
MaxLen == 2
MaxFields == 2

\* ------------------------------------------------------- JSON documents
Str(s) == [t |-> "str", v |-> s]
Num(n) == [t |-> "num", v |-> n]
Bool(b) == [t |-> "bool", v |-> b]
JList(s) == [t |-> "list", v |-> s]
JDict(f) == [t |-> "dict", v |-> f]
Ref(a) == [t |-> "ref", v |-> a]
None == [t |-> "none", v |-> 0]

\* The list without its last key.
delKeysShort ==
    << "alarms",
       "availability",
       "calendarItemExternalIdentifier",
       "calendarItemIdentifier",
       "timeZoneIdentifier",
       "isAllDay",
       "recurrenceRules",
       "creationDate" >>

delKeys ==
    << "alarms",
       "availability",
       "calendarItemExternalIdentifier",
       "calendarItemIdentifier",
       "timeZoneIdentifier",
       "isAllDay",
       "recurrenceRules",
       "creationDate",
       "lastModifiedDate" >>

\* The nine keys no cleaned event may have.
Denylist ==
    {"alarms", "availability", "calendarItemExternalIdentifier", "calendarItemIdentifier",
     "timeZoneIdentifier", "isAllDay", "recurrenceRules", "creationDate",
     "lastModifiedDate"}

\* Keys of the events of the input document: the nine keys the script
\* deletes and two it does not.
OtherKeys == {"title", "attendees"}
InputKeys == Denylist \cup OtherKeys

\* The values a key of an event may carry in the input document.  The value
\* of "attendees" is a nested object that itself has a key named "alarms".
FieldValues(k) ==
    CASE k = "title" -> {Str("Meeting"), Str("Lunch")}
      [] k = "attendees" -> {JDict([x \in {"alarms", "name"} |->
                                       IF x = "alarms" THEN Num(5) ELSE Str("Ann")])}
      [] k = "alarms" -> {JList(<<Num(1)>>)}
      [] k = "isAllDay" -> {Bool(FALSE)}
      [] k = "recurrenceRules" -> {JList(<<>>)}
      [] k = "calendarItemIdentifier" -> {Str("abc")}
      [] k = "creationDate" -> {Str("2024-01-01")}
      [] OTHER -> {Str(k)}

AllFieldValues == UNION {FieldValues(k) : k \in InputKeys}

RecordsWithKeys(S) ==
    {JDict(f) : f \in {g \in [S -> AllFieldValues] : \A k \in S : g[k] \in FieldValues(k)}}

RecordsOfSize(n) ==
    UNION {RecordsWithKeys(S) : S \in {T \in SUBSET InputKeys : Cardinality(T) = n}}

\* Array elements that are not objects.
NonDicts == {Num(1), JList(<<Num(1)>>)}

ElementsOfSize(n) == IF n = 0 THEN RecordsOfSize(0) \cup NonDicts ELSE RecordsOfSize(n)

\* The arrays of exactly n elements whose events have at most f fields in all.
RECURSIVE Lists(_, _)
Lists(n, f) ==
    IF n = 0 THEN {<<>>}
    ELSE UNION {{<<e>> \o s : e \in ElementsOfSize(k), s \in Lists(n - 1, f - k)} : k \in 0..f}

\* Documents whose root is not an array.
NonListRoots == {JDict([x \in {"events.json content"} |-> Str("not-an-array")]),
                 Str("not-an-array")}

Documents ==
    {JList(s) : s \in UNION {Lists(n, MaxFields) : n \in 0..MaxLen}} \cup NonListRoots

\* What an existing output file holds before the first run: one document.
OldOutput == <<JList(<<Str("old")>>)>>

\* ------------------------------------------------------------ the heap
\* The members of an object of the document, one after the other.
RECURSIVE SetToSeq(_)
SetToSeq(S) ==
    IF S = {} THEN <<>>
    ELSE LET x == CHOOSE y \in S : TRUE IN <<x>> \o SetToSeq(S \ {x})

\* json.load: builds fresh objects for the document j on top of heap h
\* (children first) and gives the heap and the value that denotes j.
RECURSIVE LoadValue(_, _), LoadSeq(_, _)
LoadValue(h, j) ==
    CASE j.t = "list" ->
            LET res == LoadSeq(h, j.v)
            IN  [h |-> Append(res.h, [t |-> "list", v |-> res.rs]),
                 r |-> Ref(Len(res.h) + 1)]
      [] j.t = "dict" ->
            LET keys == SetToSeq(DOMAIN j.v)
                res == LoadSeq(h, [n \in 1..Len(keys) |-> j.v[keys[n]]])
                at(k) == CHOOSE n \in 1..Len(keys) : keys[n] = k
            IN  [h |-> Append(res.h, [t |-> "dict",
                                      v |-> [k \in DOMAIN j.v |-> res.rs[at(k)]]]),
                 r |-> Ref(Len(res.h) + 1)]
      [] OTHER -> [h |-> h, r |-> j]
LoadSeq(h, js) ==
    IF js = <<>> THEN [h |-> h, rs |-> <<>>]
    ELSE LET first == LoadValue(h, Head(js))
             rest == LoadSeq(first.h, Tail(js))
         IN  [h |-> rest.h, rs |-> <<first.r>> \o rest.rs]

\* json.dump: the document a value denotes in heap h.
RECURSIVE Deref(_, _)
Deref(h, val) ==
    IF val.t # "ref" THEN val
    ELSE LET o == h[val.v]
         IN  IF o.t = "list"
             THEN JList([n \in 1..Len(o.v) |-> Deref(h, o.v[n])])
             ELSE JDict([k \in DOMAIN o.v |-> Deref(h, o.v[k])])

\* isinstance(val, list) and isinstance(val, dict)
IsList(h, val) == val.t = "ref" /\ h[val.v].t = "list"
IsDict(h, val) == val.t = "ref" /\ h[val.v].t = "dict"

\* An assignment in place of the copy: the same dict under a second name.
DictCopyAlias(h, val) == [h |-> h, r |-> val]

\* event.copy(): a new dict whose values are the values of the old one.
DictCopy(h, val) == [h |-> Append(h, h[val.v]), r |-> Ref(Len(h) + 1)]

\* A deletion that also descends into the dicts the dict holds.
DictDelDeep(h, val, key) ==
    LET top == h[val.v].v
        inner == {top[k].v : k \in {x \in DOMAIN top : top[x].t = "ref"}}
    IN  [a \in DOMAIN h |->
            IF (a = val.v \/ a \in inner) /\ h[a].t = "dict"
            THEN [t |-> "dict", v |-> [k \in (DOMAIN h[a].v) \ {key} |-> h[a].v[k]]]
            ELSE h[a]]

\* del d[key]
DictDel(h, val, key) ==
    [h EXCEPT ![val.v] =
        [t |-> "dict", v |-> [k \in (DOMAIN h[val.v].v) \ {key} |-> h[val.v].v[k]]]]

\* lst.insert(0, x)
ListPrepend(h, lst, x) ==
    [h EXCEPT ![lst.v] = [t |-> "list", v |-> <<x>> \o h[lst.v].v]]

\* lst.append(x)
ListAppend(h, lst, x) ==
    [h EXCEPT ![lst.v] = [t |-> "list", v |-> Append(h[lst.v].v, x)]]

\* ------------------------------------------------------------- state
VARIABLES
    pc,             \* the statement the script is at
    err,            \* the exception that ended the run, or "none"
    inputExists,    \* ../output/events.json exists
    inputFile,      \* its content: a document, or Malformed
    outputExists,   \* ../output/cleaned-events.json exists
    outputFile,     \* its content: the sequence of documents written to it
    stdout,         \* the lines printed: the count of each
    heap,           \* the objects of the process
    events,         \* global `events`
    cleanedEvents,  \* global `cleanedEvents`
    i,              \* how many elements the for loop has taken from events
    event,          \* global `event`
    cleanedEvent,   \* global `cleanedEvent`
    ki,             \* position of the inner loop in delKeys
    rerun,          \* the script has been started a second time
    outputAtStart   \* history: the output file when this run started

vars == <<pc, err, inputExists, inputFile, outputExists, outputFile, stdout, heap,
          events, cleanedEvents, i, event, cleanedEvent, ki, rerun, outputAtStart>>

files == <<inputExists, inputFile, outputExists, outputFile>>
locals == <<events, cleanedEvents, i, event, cleanedEvent, ki>>

\* The content of a file that is not a JSON document.
Malformed == [t |-> "malformed", v |-> 0]

Init ==
    /\ pc = "checkExists"
    /\ err = "none"
    /\ inputExists \in BOOLEAN
    /\ IF inputExists
       THEN inputFile \in Documents \cup {Malformed}
       ELSE inputFile = Malformed
    /\ outputExists \in BOOLEAN
    /\ outputFile = IF outputExists THEN OldOutput ELSE <<>>
    /\ stdout = <<>>
    /\ heap = <<>>
    /\ events = None
    /\ cleanedEvents = None
    /\ i = 0
    /\ event = None
    /\ cleanedEvent = None
    /\ ki = 0
    /\ rerun = FALSE
    /\ outputAtStart = [exists |-> outputExists, content |-> outputFile]

Raise(e) ==
    /\ pc' = "raised"
    /\ err' = e

\* The existence check that makes the file it misses and goes on.
CheckExistsCreate ==
    /\ pc = "checkExists"
    /\ inputExists' = TRUE
    /\ pc' = "load"
    /\ UNCHANGED <<err, inputFile, outputExists, outputFile, stdout, heap, locals, rerun,
                   outputAtStart>>

\* lines 50-54
CheckExists ==
    /\ pc = "checkExists"
    /\ IF ~inputExists
       THEN Raise("FileNotFoundError")
       ELSE pc' = "load" /\ err' = err
    /\ UNCHANGED <<files, stdout, heap, locals, rerun, outputAtStart>>

\* lines 57-59
LoadEvents ==
    /\ pc = "load"
    /\ IF inputFile.t = "malformed"
       THEN /\ Raise("JSONDecodeError")
            /\ UNCHANGED <<heap, events>>
       ELSE LET res == LoadValue(heap, inputFile)
            IN  /\ heap' = res.h
                /\ events' = res.r
                /\ pc' = "checkList"
                /\ err' = err
    /\ UNCHANGED <<files, stdout, cleanedEvents, i, event, cleanedEvent, ki, rerun,
                   outputAtStart>>

\* The type check that takes a root that is no list for an empty list.
CheckListLenient ==
    /\ pc = "checkList"
    /\ heap' = heap \o <<[t |-> "list", v |-> <<>>], [t |-> "list", v |-> <<>>]>>
    /\ events' = IF IsList(heap, events) THEN events ELSE Ref(Len(heap) + 1)
    /\ cleanedEvents' = Ref(Len(heap) + 2)
    /\ pc' = "forEvent"
    /\ UNCHANGED <<err, files, stdout, i, event, cleanedEvent, ki, rerun, outputAtStart>>

\* lines 62-78
CheckList ==
    /\ pc = "checkList"
    /\ IF ~IsList(heap, events)
       THEN /\ Raise("TypeError")
            /\ UNCHANGED <<heap, cleanedEvents>>
       ELSE /\ heap' = Append(heap, [t |-> "list", v |-> <<>>])
            /\ cleanedEvents' = Ref(Len(heap) + 1)
            /\ pc' = "forEvent"
            /\ err' = err
    /\ UNCHANGED <<files, stdout, events, i, event, cleanedEvent, ki, rerun,
                   outputAtStart>>

\* The loop that passes over an element that is no dict instead of raising.
ForEventSkip ==
    /\ pc = "forEvent"
    /\ IF i = Len(heap[events.v].v)
       THEN /\ pc' = "openOutput"
            /\ UNCHANGED <<heap, i, event, cleanedEvent, ki>>
       ELSE LET next == heap[events.v].v[i + 1]
            IN  /\ i' = i + 1
                /\ event' = next
                /\ IF ~IsDict(heap, next)
                   THEN UNCHANGED <<pc, heap, cleanedEvent, ki>>
                   ELSE LET res == DictCopy(heap, next)
                        IN  /\ heap' = res.h
                            /\ cleanedEvent' = res.r
                            /\ ki' = 1
                            /\ pc' = "delKey"
    /\ UNCHANGED <<err, files, stdout, events, cleanedEvents, rerun, outputAtStart>>

\* lines 80-88: the for statement takes the next element, or ends the loop
ForEvent ==
    /\ pc = "forEvent"
    /\ IF i = Len(heap[events.v].v)
       THEN /\ pc' = "openOutput"
            /\ err' = err
            /\ UNCHANGED <<heap, i, event, cleanedEvent, ki>>
       ELSE LET next == heap[events.v].v[i + 1]
            IN  /\ i' = i + 1
                /\ event' = next
                /\ IF ~IsDict(heap, next)
                   THEN /\ Raise("TypeError")
                        /\ UNCHANGED <<heap, cleanedEvent, ki>>
                   ELSE LET res == DictCopy(heap, next)
                        IN  /\ heap' = res.h
                            /\ cleanedEvent' = res.r
                            /\ ki' = 1
                            /\ pc' = "delKey"
                            /\ err' = err
    /\ UNCHANGED <<files, stdout, events, cleanedEvents, rerun, outputAtStart>>

\* lines 94-98: one iteration of the inner loop
DelKey ==
    /\ pc = "delKey"
    /\ ki <= Len(delKeys)
    /\ heap' = IF delKeys[ki] \in DOMAIN heap[cleanedEvent.v].v
               THEN DictDel(heap, cleanedEvent, delKeys[ki])
               ELSE heap
    /\ ki' = ki + 1
    /\ UNCHANGED <<pc, err, files, stdout, events, cleanedEvents, i, event, cleanedEvent,
                   rerun, outputAtStart>>

\* line 102
AppendEvent ==
    /\ pc = "delKey"
    /\ ki > Len(delKeys)
    /\ heap' = ListAppend(heap, cleanedEvents, cleanedEvent)
    /\ pc' = "forEvent"
    /\ UNCHANGED <<err, files, stdout, events, cleanedEvents, i, event, cleanedEvent, ki,
                   rerun, outputAtStart>>

\* The file opened for appending: what it holds stays.
OpenOutputAppend ==
    /\ pc = "openOutput"
    /\ outputExists' = TRUE
    /\ pc' = "dump"
    /\ UNCHANGED <<err, inputExists, inputFile, outputFile, stdout, heap, locals, rerun,
                   outputAtStart>>

\* lines 105-107: open(cleanedEventsPath, "w") creates or truncates the file
OpenOutput ==
    /\ pc = "openOutput"
    /\ outputExists' = TRUE
    /\ outputFile' = <<>>
    /\ pc' = "dump"
    /\ UNCHANGED <<err, inputExists, inputFile, stdout, heap, locals, rerun, outputAtStart>>

\* line 109
Dump ==
    /\ pc = "dump"
    /\ outputFile' = Append(outputFile, Deref(heap, cleanedEvents))
    /\ pc' = "print"
    /\ UNCHANGED <<err, inputExists, inputFile, outputExists, stdout, heap, locals, rerun,
                   outputAtStart>>

\* The print that counts the wrong list.
PrintCountKeys ==
    /\ pc = "print"
    /\ stdout' = Append(stdout, Len(delKeys))
    /\ pc' = "done"
    /\ UNCHANGED <<err, files, heap, locals, rerun, outputAtStart>>

\* line 111
PrintCount ==
    /\ pc = "print"
    /\ stdout' = Append(stdout, Len(heap[events.v].v))
    /\ pc' = "done"
    /\ UNCHANGED <<err, files, heap, locals, rerun, outputAtStart>>

\* The script is started again, once, on the files the first run left.
Restart ==
    /\ pc \in {"done", "raised"}
    /\ ~rerun
    /\ rerun' = TRUE
    /\ pc' = "checkExists"
    /\ err' = "none"
    /\ stdout' = <<>>
    /\ heap' = <<>>
    /\ events' = None
    /\ cleanedEvents' = None
    /\ i' = 0
    /\ event' = None
    /\ cleanedEvent' = None
    /\ ki' = 0
    /\ outputAtStart' = [exists |-> outputExists, content |-> outputFile]
    /\ UNCHANGED files

Next ==
    \/ CheckExists
    \/ LoadEvents
    \/ CheckList
    \/ ForEvent
    \/ DelKey
    \/ AppendEvent
    \/ OpenOutput
    \/ Dump
    \/ PrintCount
    \/ Restart

Spec == Init /\ [][Next]_vars

TypeOK ==
    /\ pc \in {"checkExists", "load", "checkList", "forEvent", "delKey", "openOutput",
               "dump", "print", "done", "raised"}
    /\ err \in {"none", "FileNotFoundError", "JSONDecodeError", "TypeError"}
    /\ (pc = "raised") = (err # "none")
    /\ i \in 0..MaxLen
    /\ ki \in 0..(Len(delKeys) + 1)
\* ------------------------------------------------- what the claims speak of
\* The sanitization loop has ended without an exception.
PassDone == pc \in {"openOutput", "dump", "print", "done"}

\* The elements of the list `events` and of the list `cleanedEvents`.
InputList == heap[events.v].v
OutputList == heap[cleanedEvents.v].v

\* The keys of the dict a value refers to.
KeysOf(h, val) == DOMAIN h[val.v].v

\* An event of the document without its denylisted keys.
Sanitized(rec) == JDict([k \in (DOMAIN rec.v) \ Denylist |-> rec.v[k]])

\* The position of the first element of the input array that is no object.
IsRecord(j) == j.t = "dict"
HasNonDict == inputExists /\ inputFile.t = "list"
                 /\ \E n \in 1..Len(inputFile.v) : ~IsRecord(inputFile.v[n])
FirstNonDict == CHOOSE n \in 1..Len(inputFile.v) :
                    /\ ~IsRecord(inputFile.v[n])
                    /\ \A m \in 1..(n - 1) : IsRecord(inputFile.v[m])

OutputUntouched ==
    /\ outputExists = outputAtStart.exists
    /\ outputFile = outputAtStart.content

\* The heaps one in-place mutation of the object at address a can leave:
\* a key deleted, rebound or added, an item removed or appended.
Mutations(h, a) ==
    LET o == h[a]
        new == Str("mutated")
    IN  IF o.t = "dict"
        THEN {[h EXCEPT ![a] = [t |-> "dict", v |-> [x \in (DOMAIN o.v) \ {k} |-> o.v[x]]]] :
                  k \in DOMAIN o.v}
             \cup {[h EXCEPT ![a] = [t |-> "dict", v |-> [o.v EXCEPT ![k] = new]]] :
                  k \in DOMAIN o.v}
             \cup {[h EXCEPT ![a] = [t |-> "dict",
                       v |-> [x \in (DOMAIN o.v) \cup {"added"} |->
                                 IF x = "added" THEN new ELSE o.v[x]]]]}
        ELSE {[h EXCEPT ![a] = [t |-> "list", v |-> Append(o.v, new)]]}
             \cup (IF o.v = <<>> THEN {}
                   ELSE {[h EXCEPT ![a] = [t |-> "list", v |-> Tail(o.v)]]})

\* The addresses of the objects that can be reached from a value.
RECURSIVE Reach(_, _)
Reach(h, val) ==
    IF val.t # "ref" THEN {}
    ELSE LET o == h[val.v]
         IN  {val.v} \cup UNION {Reach(h, o.v[x]) : x \in DOMAIN o.v}

\* --------------------------------------------------------------- claims

\* C1: once the pass has ended without an exception, no record of the output
\* list has any of the nine denylisted keys as a top-level key, and neither
\* has any record of the document written to the output file.
C1_NoDenylistedKey ==
    /\ PassDone =>
          \A n \in 1..Len(OutputList) : KeysOf(heap, OutputList[n]) \cap Denylist = {}
    /\ pc \in {"print", "done"} =>
          \A n \in 1..Len(outputFile[1].v) : DOMAIN outputFile[1].v[n].v \cap Denylist = {}

\* C1 witness: a finished run whose input had a record with two denylisted keys.
C1_Witness ==
    /\ pc = "done"
    /\ \E n \in 1..Len(inputFile.v) :
          /\ Cardinality(DOMAIN inputFile.v[n].v \cap Denylist) = 2
          /\ KeysOf(heap, OutputList[n]) = {}

\* C2: every output record has each non-denylisted top-level key of its input
\* record with an equal value (nested values whole, inner denylisted names
\* included), and has no key its input record lacked.
C2_OtherKeysPreserved ==
    PassDone =>
       \A n \in 1..Len(OutputList) :
          LET inRec == inputFile.v[n].v
              outRec == Deref(heap, OutputList[n]).v
          IN  /\ DOMAIN outRec \subseteq DOMAIN inRec
              /\ \A k \in (DOMAIN inRec) \ Denylist :
                    k \in DOMAIN outRec /\ outRec[k] = inRec[k]

\* C2 witness: a finished run on a record with a denylisted key and a nested
\* object whose inner key "alarms" is still there in the output.
C2_Witness ==
    /\ pc = "done"
    /\ \E n \in 1..Len(inputFile.v) :
          /\ DOMAIN inputFile.v[n].v \cap Denylist # {}
          /\ "attendees" \in DOMAIN inputFile.v[n].v
          /\ "alarms" \in DOMAIN outputFile[1].v[n].v["attendees"].v

\* C3: the output list is as long as the input list and its n-th record is
\* the sanitized form of the n-th input record.
C3_SameLengthAndOrder ==
    PassDone =>
       /\ Len(OutputList) = Len(inputFile.v)
       /\ \A n \in 1..Len(OutputList) :
             Deref(heap, OutputList[n]) = Sanitized(inputFile.v[n])

\* C3 witness: a finished pass over two records whose sanitized forms differ.
C3_Witness ==
    /\ PassDone
    /\ Len(OutputList) = 2
    /\ Deref(heap, OutputList[1]) # Deref(heap, OutputList[2])

\* C4: from the load on, at every step, the input list denotes the document
\* that was loaded: same length, same order, every record with all of its
\* keys and values.
C4_InputUnchanged ==
    events.t = "ref" => Deref(heap, events) = inputFile

\* C4 witness: the inner loop has deleted a key from the copy of a record.
C4_Witness ==
    /\ pc = "delKey"
    /\ KeysOf(heap, cleanedEvent) # KeysOf(heap, event)

\* C5 as stated: after the pass no mutation of an object reachable from an
\* output record changes what its input record denotes, and no mutation of
\* an object reachable from an input record changes the output record.
C5_NoSharedMutableState ==
    PassDone =>
       \A n \in 1..Len(OutputList) :
          /\ \A a \in Reach(heap, OutputList[n]) : \A h \in Mutations(heap, a) :
                Deref(h, InputList[n]) = Deref(heap, InputList[n])
          /\ \A a \in Reach(heap, InputList[n]) : \A h \in Mutations(heap, a) :
                Deref(h, OutputList[n]) = Deref(heap, OutputList[n])

\* C5 amended: each output record is an object other than its input record,
\* and no mutation of the top level of the one (a key deleted, rebound or
\* added) changes what the other denotes; the value under every key of the
\* output record is the very value the input record holds under it.
C5_TopLevelIndependent ==
    PassDone =>
       \A n \in 1..Len(OutputList) :
          /\ OutputList[n].v # InputList[n].v
          /\ \A k \in KeysOf(heap, OutputList[n]) :
                /\ k \in KeysOf(heap, InputList[n])
                /\ heap[OutputList[n].v].v[k] = heap[InputList[n].v].v[k]
          /\ \A h \in Mutations(heap, OutputList[n].v) :
                Deref(h, InputList[n]) = Deref(heap, InputList[n])
          /\ \A h \in Mutations(heap, InputList[n].v) :
                Deref(h, OutputList[n]) = Deref(heap, OutputList[n])

\* C5 witness: after the pass an output record and its input record hold the
\* same nested object.
C5_Witness ==
    /\ PassDone
    /\ \E n \in 1..Len(OutputList) :
          \E k \in KeysOf(heap, OutputList[n]) :
             /\ heap[OutputList[n].v].v[k].t = "ref"
             /\ heap[OutputList[n].v].v[k] = heap[InputList[n].v].v[k]

\* C6: when an element of the input array is no object, the loop takes no
\* element after the first such one, the run never gets to the output file
\* or to the print, the output file is as it was when the run started, and
\* the exception the run ends with is a TypeError raised at that element.
C6_FailsAtFirstNonDict ==
    HasNonDict =>
       /\ i <= FirstNonDict
       /\ ~PassDone
       /\ OutputUntouched
       /\ stdout = <<>>
       /\ pc = "raised" => (err = "TypeError" /\ i = FirstNonDict)

\* C6 witness: the run has failed at the second element, after one record
\* was cleaned, and an output file that existed still has its content.
C6_Witness ==
    /\ HasNonDict
    /\ pc = "raised"
    /\ i = 2
    /\ Len(OutputList) = 1
    /\ outputExists
    /\ outputFile = OldOutput

\* C7: when the root of the document is not an array, the run ends with a
\* TypeError before the loop: no element is taken, the list of cleaned
\* events is not even made, nothing is written and nothing is printed.
C7_RootNotList ==
    (inputExists /\ inputFile.t \notin {"list", "malformed"}) =>
       /\ pc \in {"checkExists", "load", "checkList", "raised"}
       /\ i = 0
       /\ cleanedEvents = None
       /\ OutputUntouched
       /\ stdout = <<>>
       /\ pc = "raised" => err = "TypeError"

\* C7 witness: the run has failed on a document whose root is an object.
C7_Witness ==
    /\ inputExists
    /\ inputFile.t = "dict"
    /\ pc = "raised"
    /\ err = "TypeError"

\* C8: when the input file does not exist, every step leaves it absent,
\* and after it the run is at the existence check or has ended with a
\* FileNotFoundError, with nothing loaded, no element taken, the output
\* file as it was and nothing printed.
C8_MissingInput ==
    [][~inputExists =>
          (/\ ~inputExists'
           /\ pc' \in {"checkExists", "raised"}
           /\ pc' = "raised" => err' = "FileNotFoundError"
           /\ heap' = <<>>
           /\ events' = None
           /\ i' = 0
           /\ outputExists' = outputExists
           /\ outputFile' = outputFile
           /\ stdout' = <<>>)]_vars

\* C8 witness: the run has failed for want of the input file.
C8_Witness ==
    /\ ~inputExists
    /\ pc = "raised"
    /\ err = "FileNotFoundError"

\* C9: at most one line is printed; it is printed only once the output file
\* holds the written document, and its count is the number of records of
\* that document.
C9_PrintAfterWrite ==
    /\ Len(stdout) <= 1
    /\ stdout # <<>> =>
          /\ pc = "done"
          /\ outputExists
          /\ outputFile = <<Deref(heap, cleanedEvents)>>
          /\ stdout[1] = Len(outputFile[1].v)

\* C9 witness: a finished run that reported two events.
C9_Witness ==
    /\ pc = "done"
    /\ stdout = <<2>>

\* C10: the second run on the same input file leaves the output file with
\* what the first run left in it.
C10_SameOutputTwice ==
    (rerun /\ pc = "done") => outputFile = outputAtStart.content

\* C10 witness: a second run has finished on an input with a record that
\* lost a key.
C10_Witness ==
    /\ rerun
    /\ pc = "done"
    /\ \E n \in 1..Len(inputFile.v) : DOMAIN inputFile.v[n].v \cap Denylist # {}

====
